---- MODULE Spec2Model ----
(***************************************************************************)
(* Docs Bot bridge (index.mjs): the answering client askDocsBot, the       *)
(* strict answer gate, the per-user conversation map and the two event     *)
(* handlers (InteractionCreate for /ask, MessageCreate for channel         *)
(* messages).                                                              *)
(*                                                                         *)
(* Strings are sequences of one-character strings; the character U+2019    *)
(* (right single quotation mark) is written "rsquo".  Numbers are exact    *)
(* rationals [n, d] with d > 0.  JavaScript values are records tagged by   *)
(* their type in field t.                                                  *)
(***************************************************************************)
EXTENDS Integers, Sequences, FiniteSets, TLC

VARIABLES
  cfg,          \* STRICT, MIN_SRC, MIN_LEN, MIN_CONF read from the environment
  convoByUser,  \* the Map userId -> conversation id (NoId: no entry)
  nextId,       \* number of conversation ids generated so far
  hs,           \* the running handlers, one record per handler slot
  resets,       \* history: number of resets ("new topic") handled per user
  requests,     \* history: outbound requests issued, [user, id, epoch]
  tIn,          \* a function on its own: its input (askDocsBot: the outcome
                \* of the outbound call; the formatter: an accepted result)
  tOut          \* a function on its own: what it gave its caller

vars == <<cfg, convoByUser, nextId, hs, resets, requests, tIn, tOut>>

----------------------------------------------------------------------------
(* Strings                                                                 *)

UpperCase ==
  <<"A","B","C","D","E","F","G","H","I","J","K","L","M",
    "N","O","P","Q","R","S","T","U","V","W","X","Y","Z">>
LowerCase ==
  <<"a","b","c","d","e","f","g","h","i","j","k","l","m",
    "n","o","p","q","r","s","t","u","v","w","x","y","z">>

\* the lower-case letter of every upper-case letter
LowerOf ==
  [c \in {UpperCase[i] : i \in 1..Len(UpperCase)} |->
     LowerCase[CHOOSE i \in 1..Len(UpperCase) : UpperCase[i] = c]]

\* String.prototype.toLowerCase, one character
LowerChar(c) == IF c \in DOMAIN LowerOf THEN LowerOf[c] ELSE c

\* String.prototype.toLowerCase
ToLowerCase(s) == [i \in 1..Len(s) |-> LowerChar(s[i])]

\* the characters String.prototype.trim strips and \s matches
WhiteSpace == {" ", "\n", "\t"}

\* String.prototype.trim
Trim(s) ==
  IF \A i \in 1..Len(s) : s[i] \in WhiteSpace THEN <<>>
  ELSE LET lo == CHOOSE i \in 1..Len(s) :
                   s[i] \notin WhiteSpace /\ \A j \in 1..(i - 1) : s[j] \in WhiteSpace
           hi == CHOOSE i \in 1..Len(s) :
                   s[i] \notin WhiteSpace /\ \A j \in (i + 1)..Len(s) : s[j] \in WhiteSpace
       IN  SubSeq(s, lo, hi)

\* String.prototype.slice(from, to) with 0 <= from <= to
Slice(s, from, to) ==
  SubSeq(s, from + 1, IF to < Len(s) THEN to ELSE Len(s))

\* String.prototype.startsWith
StartsWith(s, p) == Len(p) <= Len(s) /\ SubSeq(s, 1, Len(p)) = p

\* String.prototype.includes
Includes(s, p) ==
  \E i \in 0..(Len(s) - Len(p)) : SubSeq(s, i + 1, i + Len(p)) = p

----------------------------------------------------------------------------
(* Regular expressions: a pattern is a sequence of atoms, an atom a        *)
(* character class that matches one character, or one or more (plus).      *)
(* Every pattern of the program carries the i flag, so a character is      *)
(* compared in lower case.                                                 *)

\* a run of literal characters
Lit(s) == [i \in 1..Len(s) |-> [cls |-> {s[i]}, plus |-> FALSE]]
\* \s+
SpacePlus == << [cls |-> WhiteSpace, plus |-> TRUE] >>
\* ['rsquo]
AnyApostrophe == << [cls |-> {"'", "rsquo"}, plus |-> FALSE] >>

RECURSIVE MatchHere(_, _, _, _)
\* does pat[i..] match a prefix of t[j..]
MatchHere(pat, i, t, j) ==
  IF i > Len(pat) THEN TRUE
  ELSE IF j > Len(t) THEN FALSE
  ELSE IF LowerChar(t[j]) \notin pat[i].cls THEN FALSE
  ELSE IF pat[i].plus
       THEN MatchHere(pat, i, t, j + 1) \/ MatchHere(pat, i + 1, t, j + 1)
       ELSE MatchHere(pat, i + 1, t, j + 1)

\* RegExp.prototype.test: the pattern matches somewhere in t
RegExpTest(pat, t) == \E j \in 1..Len(t) : MatchHere(pat, 1, t, j)

\* /i\s+don['rsquo]t\s+know/i
RE_DontKnow ==
  Lit(<<"i">>) \o SpacePlus \o Lit(<<"d","o","n">>) \o AnyApostrophe \o Lit(<<"t">>) \o SpacePlus \o Lit(<<"k","n","o","w">>)
\* /not\s+sure/i
RE_NotSure ==
  Lit(<<"n","o","t">>) \o SpacePlus \o Lit(<<"s","u","r","e">>)
\* /please\s+clarify/i
RE_PleaseClarify ==
  Lit(<<"p","l","e","a","s","e">>) \o SpacePlus \o Lit(<<"c","l","a","r","i","f","y">>)
\* /can\s+you\s+clarify/i
RE_CanYouClarify ==
  Lit(<<"c","a","n">>) \o SpacePlus \o Lit(<<"y","o","u">>) \o SpacePlus \o Lit(<<"c","l","a","r","i","f","y">>)
\* /i\s+could\s+not\s+find/i
RE_CouldNotFind ==
  Lit(<<"i">>) \o SpacePlus \o Lit(<<"c","o","u","l","d">>) \o SpacePlus \o Lit(<<"n","o","t">>) \o SpacePlus \o Lit(<<"f","i","n","d">>)
\* /couldn['rsquo]t\s+find/i
RE_CouldntFind ==
  Lit(<<"c","o","u","l","d","n">>) \o AnyApostrophe \o Lit(<<"t">>) \o SpacePlus \o Lit(<<"f","i","n","d">>)
\* /no\s+information/i
RE_NoInformation ==
  Lit(<<"n","o">>) \o SpacePlus \o Lit(<<"i","n","f","o","r","m","a","t","i","o","n">>)
\* /unsure/i
RE_Unsure ==
  Lit(<<"u","n","s","u","r","e">>)
\* /as\s+an\s+ai/i
RE_AsAnAi ==
  Lit(<<"a","s">>) \o SpacePlus \o Lit(<<"a","n">>) \o SpacePlus \o Lit(<<"a","i">>)
\* /i\s+do\s+not\s+have\s+enough\s+context/i
RE_NotEnoughContext ==
  Lit(<<"i">>) \o SpacePlus \o Lit(<<"d","o">>) \o SpacePlus \o Lit(<<"n","o","t">>) \o SpacePlus \o Lit(<<"h","a","v","e">>) \o SpacePlus \o Lit(<<"e","n","o","u","g","h">>) \o SpacePlus \o Lit(<<"c","o","n","t","e","x","t">>)
\* /i\s+can(?:not|'t)\s+help\s+with\s+that/i, alternative 'not'
RE_CannotHelp ==
  Lit(<<"i">>) \o SpacePlus \o Lit(<<"c","a","n","n","o","t">>) \o SpacePlus \o Lit(<<"h","e","l","p">>) \o SpacePlus \o Lit(<<"w","i","t","h">>) \o SpacePlus \o Lit(<<"t","h","a","t">>)
\* /i\s+can(?:not|'t)\s+help\s+with\s+that/i, alternative ''t'
RE_CantHelp ==
  Lit(<<"i">>) \o SpacePlus \o Lit(<<"c","a","n">>) \o Lit(<<"'">>) \o Lit(<<"t">>) \o SpacePlus \o Lit(<<"h","e","l","p">>) \o SpacePlus \o Lit(<<"w","i","t","h">>) \o SpacePlus \o Lit(<<"t","h","a","t">>)
\* /try\s+again/i
RE_TryAgain ==
  Lit(<<"t","r","y">>) \o SpacePlus \o Lit(<<"a","g","a","i","n">>)
\* /rephrase/i
RE_Rephrase ==
  Lit(<<"r","e","p","h","r","a","s","e">>)
FALLBACK_PATTERNS ==
  <<RE_DontKnow, RE_NotSure, RE_PleaseClarify, RE_CanYouClarify, RE_CouldNotFind, RE_CouldntFind, RE_NoInformation, RE_Unsure, RE_AsAnAi, RE_NotEnoughContext, RE_CannotHelp, RE_CantHelp, RE_TryAgain, RE_Rephrase>>

----------------------------------------------------------------------------
(* JavaScript values as they come out of JSON.parse                        *)

Undefined == [t |-> "undefined"]
Null == [t |-> "null"]
Str(s) == [t |-> "string", s |-> s]
Bool(b) == [t |-> "boolean", b |-> b]
Num(n, d) == [t |-> "number", n |-> n, d |-> d]
\* 1e999 parses to Infinity
Infinity == [t |-> "number", inf |-> TRUE]
\* a plain object that is not an array, such as {}
Obj == [t |-> "object"]
Arr(a) == [t |-> "array", a |-> a]

\* x == null || x === undefined  (what ?. and ?? test)
IsNullish(v) == v.t \in {"undefined", "null"}

\* a rational, or NaN/Infinity (fin = FALSE)
Fin(n, d) == [fin |-> TRUE, n |-> n, d |-> d]
NaN == [fin |-> FALSE, n |-> 0, d |-> 1]

\* a < b for finite rationals
Lt(a, b) == a.n * b.d < b.n * a.d

Digits == <<"0","1","2","3","4","5","6","7","8","9">>
IsDigit(c) == \E i \in 1..Len(Digits) : Digits[i] = c
DigitVal(c) == (CHOOSE i \in 1..Len(Digits) : Digits[i] = c) - 1

RECURSIVE Pow10(_)
Pow10(k) == IF k = 0 THEN 1 ELSE 10 * Pow10(k - 1)

RECURSIVE DigitsVal(_)
\* the value of a run of decimal digits
DigitsVal(s) ==
  IF Len(s) = 0 THEN 0
  ELSE 10 * DigitsVal(SubSeq(s, 1, Len(s) - 1)) + DigitVal(s[Len(s)])

\* StringToNumber for unsigned decimal literals: "" and blank give 0,
\* digits with at most one "." give their value, anything else NaN
StringToNumber(str) ==
  LET s == Trim(str)
      dots == {i \in 1..Len(s) : s[i] = "."}
      digs == {i \in 1..Len(s) : IsDigit(s[i])}
  IN  IF Len(s) = 0 THEN Fin(0, 1)
      ELSE IF digs = {} \/ Cardinality(dots) > 1
                        \/ Cardinality(dots) + Cardinality(digs) # Len(s)
           THEN NaN
      ELSE IF dots = {} THEN Fin(DigitsVal(s), 1)
      ELSE LET p == CHOOSE i \in dots : TRUE
               frac == SubSeq(s, p + 1, Len(s))
           IN  Fin(DigitsVal(SubSeq(s, 1, p - 1) \o frac), Pow10(Len(frac)))

\* Number(v)
Number(v) ==
  CASE v.t = "undefined" -> NaN
    [] v.t = "null" -> Fin(0, 1)
    [] v.t = "boolean" -> IF v.b THEN Fin(1, 1) ELSE Fin(0, 1)
    [] v.t = "number" -> IF "inf" \in DOMAIN v THEN NaN ELSE Fin(v.n, v.d)
    [] v.t = "string" -> StringToNumber(v.s)
    [] OTHER -> NaN

\* Number.isFinite applied to a number
NumberIsFinite(x) == x.fin

\* Boolean(v) for the values a source entry can be
Truthy(v) ==
  CASE v.t \in {"undefined", "null"} -> FALSE
    [] v.t = "boolean" -> v.b
    [] v.t = "string" -> Len(v.s) > 0
    [] v.t = "number" -> "inf" \in DOMAIN v \/ v.n # 0
    [] OTHER -> TRUE

\* Array.prototype.filter(Boolean)
FilterBoolean(a) == SelectSeq(a, Truthy)

----------------------------------------------------------------------------
(* Gate configuration                                                      *)

STRICT == cfg.STRICT
MIN_SRC == cfg.MIN_SRC
MIN_LEN == cfg.MIN_LEN
MIN_CONF == cfg.MIN_CONF

----------------------------------------------------------------------------
(* Strict answer heuristics                                                *)

\* without the minimum length
looksLikeFallback_NoMinLen(text) ==
  IF Len(text) = 0 THEN TRUE
  ELSE LET t == Trim(text)
       IN  IF Len(t) = 0 THEN TRUE
           ELSE \E k \in 1..Len(FALLBACK_PATTERNS) :
                   RegExpTest(FALLBACK_PATTERNS[k], t)

\* without the phrase patterns
looksLikeFallback_NoPatterns(text) ==
  IF Len(text) = 0 THEN TRUE
  ELSE LET t == Trim(text)
       IN  IF Len(t) = 0 THEN TRUE
           ELSE Len(t) < MIN_LEN

looksLikeFallback(text) ==
  IF Len(text) = 0 THEN TRUE
  ELSE LET t == Trim(text)
       IN  IF Len(t) = 0 THEN TRUE
           ELSE IF Len(t) < MIN_LEN THEN TRUE
           ELSE \E k \in 1..Len(FALLBACK_PATTERNS) :
                   RegExpTest(FALLBACK_PATTERNS[k], t)

\* o.name for a non-nullish o: undefined when o has no such property
Get(o, name) ==
  IF o.t = "object" /\ name \in DOMAIN o THEN o[name] ELSE Undefined

\* o?.name
OptGet(o, name) == IF IsNullish(o) THEN Undefined ELSE Get(o, name)

\* a ?? b
Coalesce(a, b) == IF IsNullish(a) THEN b ELSE a

\* the first entry of the sequence of numbers that is finite, else NaN
RECURSIVE FirstFinite(_)
FirstFinite(ns) ==
  IF Len(ns) = 0 THEN NaN
  ELSE IF NumberIsFinite(Head(ns)) THEN Head(ns)
  ELSE FirstFinite(Tail(ns))

extractConfidence(candidate) ==
  LET d0 == OptGet(candidate, "data")
      d == IF Truthy(d0) THEN d0 ELSE Obj
      cands == << Get(d, "confidence"), Get(d, "score"), Get(d, "relevance"),
                  Get(d, "similarity"), Get(d, "lookup_score") >>
      first == FirstFinite([i \in 1..Len(cands) |-> Number(cands[i])])
      sv == Get(d, "sources")
      sources == IF sv.t = "array" THEN sv.a ELSE <<>>
      OfSource(s) ==
        Number(Coalesce(Coalesce(OptGet(s, "score"), OptGet(s, "confidence")),
                        OptGet(s, "similarity")))
  IN  IF NumberIsFinite(first) THEN first
      ELSE FirstFinite([i \in 1..Len(sources) |-> OfSource(sources[i])])

\* no rescaling of values above 1
normalizeConfidence_NoScale(x) == IF ~NumberIsFinite(x) THEN NaN ELSE x

normalizeConfidence(x) ==
  IF ~NumberIsFinite(x) THEN NaN
  ELSE IF Lt(Fin(1, 1), x) THEN Fin(x.n, x.d * 100) ELSE x

passesStrictGate(answer, sources, chosen) ==
  IF ~STRICT THEN TRUE
  ELSE IF looksLikeFallback(answer) THEN FALSE
  ELSE LET src == FilterBoolean(sources)
           raw == extractConfidence(chosen)
           conf == normalizeConfidence(raw)
       IN  IF MIN_SRC > 0 /\ Len(src) < MIN_SRC THEN FALSE
           ELSE IF NumberIsFinite(conf) /\ Lt(conf, MIN_CONF) THEN FALSE
           ELSE TRUE

----------------------------------------------------------------------------
(* The outbound call and askDocsBot                                        *)

\* the outcome of the outbound call, as askDocsBot's try block sees it:
\*   fetch rejects (network error), fetch or the body read rejects with the
\*   abort of the 20 second timer, or a response with res.ok and a body
FetchRejected == [k |-> "rejected"]
FetchAborted == [k |-> "aborted"]
Response(ok, body) == [k |-> "response", ok |-> ok, body |-> body]

\* response bodies: res.text() rejects; the text "", the text "null", a
\* text that is not JSON, and a text that is the JSON of the value v
BodyError == [kind |-> "error"]
EmptyBody == [kind |-> "empty"]
NullBody == [kind |-> "null"]
InvalidBody == [kind |-> "invalid"]
JsonBody(v) == [kind |-> "json", v |-> v]

Return(v) == [thrown |-> FALSE, v |-> v]
Thrown == [thrown |-> TRUE]

\* { ok: false, answer: '', sources: [] }
NoAnswer == [ok |-> FALSE, answer |-> <<>>, sources |-> <<>>]

LOOKUP_ANSWER == Str(<<"l","o","o","k","u","p","_","a","n","s","w","e","r">>)
ANSWER == Str(<<"a","n","s","w","e","r">>)

\* events.find(e => e?.event === tag)
Find(events, tag) ==
  LET hit == {i \in 1..Len(events) : OptGet(events[i], "event") = tag}
  IN  IF hit = {} THEN Undefined
      ELSE events[CHOOSE i \in hit : \A j \in hit : i <= j]

\* a || b
Or(a, b) == IF Truthy(a) THEN a ELSE b

\* the first event that carries either tag, else the first event
ChosenEvent_Positional(events) ==
  LET hit == {i \in 1..Len(events) :
                OptGet(events[i], "event") \in {LOOKUP_ANSWER, ANSWER}}
  IN  IF hit # {} THEN events[CHOOSE i \in hit : \A j \in hit : i <= j]
      ELSE IF Len(events) > 0 THEN events[1] ELSE Undefined

\* lookup || simple || events[0]
ChosenEvent(events) ==
  Or(Or(Find(events, LOOKUP_ANSWER), Find(events, ANSWER)),
     IF Len(events) > 0 THEN events[1] ELSE Undefined)

\* an empty or "null" body answered with a canned apology
NullBodyResult_Apology ==
  Return([ok |-> TRUE, answer |-> <<"T","h","e"," ","b","o","t"," ","i","s"," ","s","t","i","l","l"," ","i","n","i","t","i","a","l","i","z","i","n","g",".">>, sources |-> <<>>])

\* what askDocsBot returns for a body that is empty or the text "null"
NullBodyResult == Return(NoAnswer)

\* the try block of askDocsBot once the outbound call has settled
AskTry(resp) ==
  IF resp.k # "response" THEN Thrown
  ELSE IF ~resp.ok THEN Thrown
  ELSE IF resp.body.kind = "error" THEN Thrown
  ELSE IF resp.body.kind \in {"empty", "null"} THEN NullBodyResult
  ELSE IF resp.body.kind = "invalid" THEN Thrown
  ELSE IF resp.body.v.t # "array" THEN Thrown
  ELSE LET events == resp.body.v.a
           chosen == ChosenEvent(events)
           a == OptGet(OptGet(chosen, "data"), "answer")
           sv == OptGet(OptGet(chosen, "data"), "sources")
           sources == IF sv.t = "array" THEN sv.a ELSE <<>>
       IN  IF IsNullish(a)
           THEN Return([ok |-> passesStrictGate(<<>>, sources, chosen),
                        answer |-> <<>>, sources |-> sources, chosen |-> chosen])
           ELSE IF a.t # "string" THEN Thrown
           ELSE Return([ok |-> passesStrictGate(Trim(a.s), sources, chosen),
                        answer |-> Trim(a.s), sources |-> sources,
                        chosen |-> chosen])

\* a catch block that logs and rethrows
AskCatch_Rethrow(r) == r

\* the catch block of askDocsBot
AskCatch(r) == IF r.thrown THEN Return(NoAnswer) ELSE r

\* what askDocsBot gives its caller for an outcome of the outbound call
askDocsBot(resp) == AskCatch(AskTry(resp))

----------------------------------------------------------------------------
(* Inputs: answer texts, sources, confidence fields, events, bodies        *)

\* T_Empty: trimmed length 0, JS patterns matched []
T_Empty ==
  <<>>
\* T_Blank: trimmed length 0, JS patterns matched []
T_Blank ==
  <<" "," ","\n">>
\* T_Short: trimmed length 4, JS patterns matched []
T_Short ==
  <<"Y","e","s",".">>
\* T_Padded39: trimmed length 39, JS patterns matched []
T_Padded39 ==
  <<" "," "," ","S","t","a","k","e"," ","A","E","R","O"," ","i","n"," ","t","h","e"," ","v","a","u","l","t"," ","t","o"," ","e","a","r","n"," ","r","e","w","a","r","d","s"," "," ","\n">>
\* T_Exact40: trimmed length 40, JS patterns matched []
T_Exact40 ==
  <<"S","t","a","k","e"," ","A","E","R","O"," ","i","n"," ","t","h","e"," ","v","a","u","l","t"," ","t","o"," ","e","a","r","n"," ","r","e","w","a","r","d","s",".">>
\* T_ShortUnsure: trimmed length 6, JS patterns matched [8]
T_ShortUnsure ==
  <<"u","n","s","u","r","e">>
\* T_Clean: trimmed length 50, JS patterns matched []
T_Clean ==
  <<"S","t","a","k","e"," ","A","E","R","O"," ","i","n"," ","t","h","e"," ","v","a","u","l","t"," ","t","o"," ","e","a","r","n"," ","t","h","e"," ","w","e","e","k","l","y"," ","r","e","w","a","r","d",".">>
\* T_DontKnow: trimmed length 52, JS patterns matched [1]
T_DontKnow ==
  <<"I"," ","d","o","n","'","t"," ","k","n","o","w"," ","t","h","e"," ","c","u","r","r","e","n","t"," ","s","t","a","k","i","n","g"," ","r","e","w","a","r","d"," ","r","a","t","e",","," ","s","o","r","r","y",".">>
\* T_DontKnowCurly: trimmed length 53, JS patterns matched [1]
T_DontKnowCurly ==
  <<"S","o","r","r","y",","," ","I"," "," ","d","o","n","rsquo","t"," ","K","N","O","W"," ","t","h","e"," ","c","u","r","r","e","n","t"," ","s","t","a","k","i","n","g"," ","r","e","w","a","r","d"," ","r","a","t","e",".">>
\* T_NotSure: trimmed length 64, JS patterns matched [2, 3]
T_NotSure ==
  <<"I","'","m"," ","n","o","t"," ","s","u","r","e",","," ","p","l","e","a","s","e"," ","c","l","a","r","i","f","y"," ","y","o","u","r"," ","q","u","e","s","t","i","o","n"," ","a","b","o","u","t"," ","s","t","a","k","i","n","g"," ","r","e","w","a","r","d","s">>
\* T_PleaseClarify: trimmed length 54, JS patterns matched [3]
T_PleaseClarify ==
  <<"P","l","e","a","s","e","\t","c","l","a","r","i","f","y"," ","w","h","i","c","h"," ","v","a","u","l","t"," ","y","o","u"," ","a","r","e"," ","a","s","k","i","n","g"," ","a","b","o","u","t"," ","t","o","d","a","y",".">>
\* T_CanYouClarify: trimmed length 54, JS patterns matched [4]
T_CanYouClarify ==
  <<"C","a","n"," ","y","o","u"," ","c","l","a","r","i","f","y"," ","w","h","i","c","h"," ","t","o","k","e","n"," ","y","o","u"," ","m","e","a","n"," ","i","n"," ","y","o","u","r"," ","q","u","e","s","t","i","o","n","?">>
\* T_CouldNotFind: trimmed length 55, JS patterns matched [5]
T_CouldNotFind ==
  <<"I"," ","c","o","u","l","d"," ","n","o","t"," ","f","i","n","d"," ","a","n","y","t","h","i","n","g"," ","a","b","o","u","t"," ","t","h","a","t"," ","v","a","u","l","t"," ","i","n"," ","t","h","e"," ","d","o","c","s",".">>
\* T_CouldntFind: trimmed length 51, JS patterns matched [6]
T_CouldntFind ==
  <<"S","o","r","r","y",","," ","w","e"," ","c","o","u","l","d","n","'","t"," ","f","i","n","d"," ","d","o","c","s"," ","o","n"," ","t","h","a","t"," ","s","t","a","k","i","n","g"," ","t","o","p","i","c",".">>
\* T_NoInformation: trimmed length 54, JS patterns matched [7]
T_NoInformation ==
  <<"T","h","e","r","e"," ","i","s"," ","N","o"," ","I","n","f","o","r","m","a","t","i","o","n"," ","a","b","o","u","t"," ","t","h","a","t"," ","r","e","w","a","r","d"," ","i","n"," ","t","h","e"," ","d","o","c","s",".">>
\* T_Unsure: trimmed length 53, JS patterns matched [8]
T_Unsure ==
  <<"U","N","S","U","R","E"," ","w","h","e","t","h","e","r"," ","t","h","e"," ","v","a","u","l","t"," ","p","a","y","s"," ","t","h","a","t"," ","r","e","w","a","r","d"," ","e","v","e","r","y"," ","w","e","e","k",".">>
\* T_AsAnAi: trimmed length 56, JS patterns matched [9]
T_AsAnAi ==
  <<"A","s"," ","a","n"," ","A","I"," ","m","o","d","e","l"," ","I"," ","e","s","t","i","m","a","t","e"," ","t","h","a","t"," ","t","h","e"," ","v","a","u","l","t"," ","r","e","w","a","r","d"," ","i","s"," ","h","i","g","h",".">>
\* T_NotEnoughContext: trimmed length 52, JS patterns matched [10]
T_NotEnoughContext ==
  <<"I"," ","d","o"," ","n","o","t"," ","h","a","v","e"," ","e","n","o","u","g","h"," ","c","o","n","t","e","x","t"," ","t","o"," ","a","n","s","w","e","r"," ","a","b","o","u","t"," ","v","a","u","l","t","s",".">>
\* T_CannotHelp: trimmed length 49, JS patterns matched [11]
T_CannotHelp ==
  <<"I"," ","c","a","n","n","o","t"," ","h","e","l","p"," ","w","i","t","h"," ","t","h","a","t"," ","q","u","e","s","t","i","o","n"," ","a","b","o","u","t"," ","t","h","e"," ","v","a","u","l","t",".">>
\* T_CantHelp: trimmed length 51, JS patterns matched [11]
T_CantHelp ==
  <<"S","a","d","l","y"," ","I"," ","c","a","n","'","t"," ","h","e","l","p"," ","w","i","t","h"," ","t","h","a","t"," ","q","u","e","s","t","i","o","n"," ","o","n"," ","t","h","e"," ","v","a","u","l","t",".">>
\* T_TryAgain: trimmed length 50, JS patterns matched [12]
T_TryAgain ==
  <<"T","h","e"," ","v","a","u","l","t"," ","i","s"," ","b","u","s","y",","," ","t","r","y","\n","a","g","a","i","n"," ","a","f","t","e","r"," ","t","h","e"," ","n","e","x","t"," ","e","p","o","c","h",".">>
\* T_Rephrase: trimmed length 48, JS patterns matched [13]
T_Rephrase ==
  <<"C","o","u","l","d"," ","y","o","u"," ","r","e","p","h","r","a","s","e"," ","t","h","e"," ","q","u","e","s","t","i","o","n"," ","a","b","o","u","t"," ","t","h","e"," ","v","a","u","l","t","?">>
\* T_NearDontKnow: trimmed length 51, JS patterns matched []
T_NearDontKnow ==
  <<"I"," ","d","o","n","t"," ","k","n","o","w"," ","o","f"," ","a","n","y"," ","v","a","u","l","t"," ","t","h","a","t"," ","p","a","y","s"," ","a"," ","h","i","g","h","e","r"," ","r","e","w","a","r","d",".">>
\* T_NearNotSure: trimmed length 55, JS patterns matched []
T_NearNotSure ==
  <<"T","h","e"," ","t","o","k","e","n"," ","i","s"," ","c","a","l","l","e","d"," ","n","o","t","s","u","r","e"," ","a","n","d"," ","i","t"," ","p","a","y","s"," ","r","e","w","a","r","d","s"," ","w","e","e","k","l","y",".">>
\* T_NearCantHelp: trimmed length 54, JS patterns matched []
T_NearCantHelp ==
  <<"I"," ","c","a","n","rsquo","t"," ","h","e","l","p"," ","w","i","t","h"," ","t","h","a","t",":"," ","t","h","e"," ","v","a","u","l","t"," ","p","a","y","s"," ","r","e","w","a","r","d","s"," ","w","e","e","k","l","y",".">>

AnswerTexts ==
  {T_Empty, T_Blank, T_Short, T_Padded39,
   T_Exact40, T_ShortUnsure, T_Clean, T_DontKnow,
   T_DontKnowCurly, T_NotSure, T_PleaseClarify, T_CanYouClarify,
   T_CouldNotFind, T_CouldntFind, T_NoInformation, T_Unsure,
   T_AsAnAi, T_NotEnoughContext, T_CannotHelp, T_CantHelp,
   T_TryAgain, T_Rephrase, T_NearDontKnow, T_NearNotSure,
   T_NearCantHelp}


\* a source entry { title, url, score, confidence, similarity }
Source(title, url, score, confidence, similarity) ==
  [t |-> "object", title |-> title, url |-> url, score |-> score,
   confidence |-> confidence, similarity |-> similarity]

Title1 == Str(<<"V","a","u","l","t"," ","d","o","c","s">>)
Url1 == Str(<<"h","t","t","p","s",":","/","/","d","o","c","s","/","v","a","u","l","t">>)
Title2 == Str(<<"S","t","a","k","i","n","g"," ","g","u","i","d","e">>)
Url2 == Str(<<"h","t","t","p","s",":","/","/","d","o","c","s","/","s","t","a","k","e">>)

S_Full == Source(Title1, Url1, Undefined, Undefined, Undefined)
S_TitleOnly == Source(Title2, Undefined, Undefined, Undefined, Undefined)
S_UrlOnly == Source(Undefined, Url2, Undefined, Undefined, Undefined)
S_Bare == Source(Undefined, Undefined, Undefined, Undefined, Undefined)
\* sources that carry a score-like field
S_Score(v) == Source(Title1, Url1, v, Undefined, Undefined)
S_Confidence(v) == Source(Title1, Url1, Undefined, v, Undefined)
S_Similarity(v) == Source(Title1, Url1, Null, Undefined, v)

\* data.sources without score-like fields
PlainSourceVals ==
  {Undefined, Null, Obj, Arr(<<>>), Arr(<<Null>>), Arr(<<Null, Null>>),
   Arr(<<S_Full>>), Arr(<<Null, S_Full>>), Arr(<<S_Full, S_TitleOnly>>),
   Arr(<<S_TitleOnly, Null, S_UrlOnly>>), Arr(<<S_Full, S_TitleOnly, S_UrlOnly>>),
   Arr(<<S_Bare>>)}

\* raw confidence values, on the 0..1 and on the 0..100 scale
RawNumbers ==
  {Num(0, 1), Num(1, 100), Num(1, 5), Num(7, 20), Num(1, 2), Num(17, 20),
   Num(9, 10), Num(1, 1), Num(3, 2), Num(20, 1), Num(35, 1), Num(85, 1), Num(100, 1),
   Num(150, 1)}

\* values of a confidence field that are not numbers
NonNumbers ==
  {Undefined, Null, Str(<<>>), Str(<<"h","i","g","h">>), Str(<<"8","5">>), Str(<<" ","0",".","2"," ">>), Bool(TRUE),
   Infinity, Obj}

\* data.sources with score-like fields
ScoredSourceVals ==
  {Arr(<<S_Score(v)>>) : v \in {Num(1, 5), Num(17, 20), Num(85, 1), Null, Str(<<>>)}}
  \cup {Arr(<<S_Confidence(Num(1, 5))>>), Arr(<<S_Similarity(Num(1, 5))>>),
        Arr(<<S_Similarity(Null)>>), Arr(<<S_Similarity(Undefined)>>),
        Arr(<<Null, S_Full, S_Score(Num(1, 5))>>),
        Arr(<<S_Score(Num(17, 20)), S_Score(Num(1, 5))>>),
        Arr(<<S_Score(Str(<<"n","/","a">>)), S_Confidence(Num(20, 1))>>)}

\* the five confidence-like fields of data, in the order the program reads
\* them: confidence, score, relevance, similarity, lookup_score
NoConf == <<Undefined, Undefined, Undefined, Undefined, Undefined>>
ConfTuples ==
  {<<v, Undefined, Undefined, Undefined, Undefined>> : v \in RawNumbers \cup NonNumbers}
  \cup {<<Undefined, Undefined, Undefined, Undefined, v>> :
          v \in {Num(1, 5), Num(85, 1), Null}}
  \cup {<<Undefined, Num(1, 5), Num(17, 20), Undefined, Undefined>>,
        <<Num(17, 20), Num(1, 5), Undefined, Undefined, Undefined>>,
        <<Str(<<"n","/","a">>), Undefined, Num(1, 5), Num(17, 20), Undefined>>,
        <<Null, Num(17, 20), Undefined, Undefined, Undefined>>,
        <<Infinity, Undefined, Undefined, Num(20, 1), Undefined>>}

\* an event's data { answer, sources, confidence, score, ... }
Data(answer, sources, c) ==
  [t |-> "object", answer |-> answer, sources |-> sources,
   confidence |-> c[1], score |-> c[2], relevance |-> c[3],
   similarity |-> c[4], lookup_score |-> c[5]]

\* an event { event, data }
Event(tag, data) == [t |-> "object", event |-> tag, data |-> data]

OTHER_TAG == Str(<<"s","t","r","e","a","m","_","e","n","d">>)

AnswerVals == {Undefined, Null, Num(5, 1)} \cup {Str(x) : x \in AnswerTexts}

\* data of a single event: every answer with every plain source list, a few
\* answers with every assignment of confidence fields and scored sources
GateData ==
  {Data(a, s, c) : a \in AnswerVals, s \in PlainSourceVals,
                   c \in {NoConf,
                          <<Num(17, 20), Undefined, Undefined, Undefined, Undefined>>,
                          <<Num(1, 5), Undefined, Undefined, Undefined, Undefined>>}}
  \cup {Data(Str(a), s, c) : a \in {T_Clean, T_NotSure, T_Short},
                             s \in {Arr(<<>>), Arr(<<S_Full>>),
                                    Arr(<<S_Full, S_TitleOnly, S_UrlOnly>>)},
                             c \in ConfTuples}
  \cup {Data(Str(a), s, NoConf) : a \in {T_Clean, T_Short}, s \in ScoredSourceVals}

\* events of the arrays that exercise the choice of the event
D_Lookup == Data(Str(T_Clean), Arr(<<S_Full>>), <<Num(17, 20), Undefined, Undefined, Undefined, Undefined>>)
D_Lookup2 == Data(Str(T_Rephrase), Arr(<<S_Full, S_UrlOnly>>), NoConf)
D_Answer == Data(Str(T_Exact40), Arr(<<S_TitleOnly>>), NoConf)
D_Other == Data(Str(T_Padded39), Arr(<<>>), NoConf)
D_Untagged == Data(Undefined, Undefined, NoConf)
SelEvents ==
  {Null, Event(LOOKUP_ANSWER, D_Lookup), Event(LOOKUP_ANSWER, D_Lookup2),
   Event(ANSWER, D_Answer), Event(ANSWER, Undefined), Event(OTHER_TAG, D_Other),
   Event(Undefined, D_Untagged)}

\* longest array of events in a body
MaxEvents == 3

EventArrays ==
  {<<Event(ANSWER, d)>> : d \in GateData}
  \cup UNION {[1..n -> SelEvents] : n \in 0..MaxEvents}

\* every outcome of the outbound call the model draws
Outcomes ==
  {FetchRejected, FetchAborted}
  \cup {Response(FALSE, b) : b \in {BodyError, EmptyBody, InvalidBody,
                                    JsonBody(Arr(<<Event(ANSWER, D_Lookup)>>))}}
  \cup {Response(TRUE, b) : b \in {BodyError, EmptyBody, NullBody, InvalidBody}}
  \cup {Response(TRUE, JsonBody(v)) : v \in {Null, Obj, Num(5, 1), Bool(TRUE), Str(T_Clean)}}
  \cup {Response(TRUE, JsonBody(Arr(a))) : a \in EventArrays}

\* gate configurations: the defaults, and each setting moved
Config(strict, minSrc, minLen, minConf) ==
  [STRICT |-> strict, MIN_SRC |-> minSrc, MIN_LEN |-> minLen, MIN_CONF |-> minConf]
DefaultConfig == Config(TRUE, 1, 40, Fin(35, 100))
Configs ==
  {DefaultConfig,
   Config(FALSE, 1, 40, Fin(35, 100)),
   Config(TRUE, 0, 40, Fin(35, 100)),
   Config(TRUE, 2, 40, Fin(35, 100)),
   Config(TRUE, 1, 0, Fin(35, 100)),
   Config(TRUE, 1, 5, Fin(35, 100)),
   Config(TRUE, 1, 40, Fin(0, 1)),
   Config(TRUE, 1, 40, Fin(1, 1))}

----------------------------------------------------------------------------
(* Conversation tracking                                                   *)

Users == {"u1", "u2"}
NoId == 0

\* the user id as it is spliced into a mention
UserIdText(u) == IF u = "u1" THEN <<"1","0","0","1">> ELSE <<"1","0","0","2">>

\* a tracker that hands out a new id on every call and stores nothing
getConversationIdForUser_NoStore(userId) ==
  [id |-> nextId + 1, map |-> convoByUser, next |-> nextId + 1]

\* getConversationIdForUser: the id returned, the map and the number of ids
\* generated afterwards; crypto.randomUUID() is a value never generated before
getConversationIdForUser(userId) ==
  IF convoByUser[userId] # NoId
  THEN [id |-> convoByUser[userId], map |-> convoByUser, next |-> nextId]
  ELSE [id |-> nextId + 1,
        map |-> [convoByUser EXCEPT ![userId] = nextId + 1],
        next |-> nextId + 1]

\* convoByUser.delete(userId)
ConvoDelete(userId) == [convoByUser EXCEPT ![userId] = NoId]

----------------------------------------------------------------------------
(* Texts the handlers send                                                 *)

NOTICE == <<"uD83E","uDD10"," ","N","o"," ","c","o","n","f","i","d","e","n","t"," ","a","n","s","w","e","r"," ","f","o","u","n","d"," ","f","o","r"," ","t","h","a","t"," ","q","u","e","s","t","i","o","n",".">>
ERROR_MSG == <<"u274C"," ","I"," ","h","a","d"," ","t","r","o","u","b","l","e"," ","g","e","t","t","i","n","g"," ","a","n"," ","a","n","s","w","e","r","."," ","P","l","e","a","s","e"," ","t","r","y"," ","a","g","a","i","n",".">>
RESET_MSG == <<"uD83E","uDDF9"," ","S","t","a","r","t","e","d"," ","a"," ","n","e","w"," ","c","o","n","v","e","r","s","a","t","i","o","n","."," ","A","s","k"," ","a","w","a","y","!">>
SOURCES_HEADER == <<"\n","\n","uD83D","uDCDA"," ","*","*","S","o","u","r","c","e","s",":","*","*","\n">>
NEW_TOPIC == <<"n","e","w"," ","t","o","p","i","c">>
EPHEMERAL == 64

RECURSIVE Join(_, _)
\* Array.prototype.join
Join(parts, sep) ==
  IF Len(parts) = 0 THEN <<>>
  ELSE IF Len(parts) = 1 THEN parts[1]
  ELSE parts[1] \o sep \o Join(Tail(parts), sep)

\* a || b on a source's title and url (strings or missing)
OrText(v, dflt) == IF Truthy(v) THEN v.s ELSE dflt

\* the embed of the command reply (lines 610-623); a null entry among the
\* first five sources makes s.title throw a TypeError
BuildEmbed(answer, sources) ==
  LET five == SubSeq(sources, 1, IF Len(sources) < 5 THEN Len(sources) ELSE 5)
      Line(s) == <<"u2022"," ","[">> \o OrText(Get(s, "title"), <<"S","o","u","r","c","e">>) \o <<"]","(">>
                   \o OrText(Get(s, "url"), <<"#">>) \o <<")">>
      sourceList == Slice(Join([i \in 1..Len(five) |-> Line(five[i])], <<"\n">>),
                          0, 1024)
  IN  IF \E i \in 1..Len(five) : IsNullish(five[i]) THEN Thrown
      ELSE Return([title |-> <<"A","n","s","w","e","r">>,
                   description |-> Slice(answer, 0, 4000),
                   footer |-> <<"P","o","w","e","r","e","d"," ","b","y"," ","D","o","c","s","B","o","t",".","a","i">>,
                   fields |-> IF Len(sources) > 0 /\ Len(sourceList) > 0
                              THEN << [name |-> <<"S","o","u","r","c","e","s">>, value |-> sourceList] >>
                              ELSE <<>>])

\* a plain message that is sent at whatever length it has
BuildResponse_NoCap(userId, question, answer, sources) ==
  LET head == <<"<","@">> \o UserIdText(userId) \o <<">","\n","\n","*","*">>
                \o question \o <<"*","*","\n","\n">> \o answer
      Link(s) == IF Truthy(Get(s, "url")) THEN Get(s, "url") ELSE Get(s, "title")
      links == SelectSeq([i \in 1..Len(sources) |-> Link(sources[i])], Truthy)
      sourceLinks == Join([i \in 1..Len(links) |-> links[i].s], <<"\n">>)
  IN  IF \E i \in 1..Len(sources) : IsNullish(sources[i]) THEN Thrown
      ELSE Return(IF Len(sources) > 0 /\ Len(sourceLinks) > 0
                  THEN head \o SOURCES_HEADER \o sourceLinks
                  ELSE head)

\* the plain message of the message handler (lines 683-689); a null entry
\* anywhere in the sources makes s.url throw a TypeError
BuildResponse(userId, question, answer, sources) ==
  LET head == <<"<","@">> \o UserIdText(userId) \o <<">","\n","\n","*","*">>
                \o question \o <<"*","*","\n","\n">> \o answer
      Link(s) == IF Truthy(Get(s, "url")) THEN Get(s, "url") ELSE Get(s, "title")
      links == SelectSeq([i \in 1..Len(sources) |-> Link(sources[i])], Truthy)
      sourceLinks == Join([i \in 1..Len(links) |-> links[i].s], <<"\n">>)
      response == IF Len(sources) > 0 /\ Len(sourceLinks) > 0
                  THEN head \o SOURCES_HEADER \o sourceLinks
                  ELSE head
  IN  IF \E i \in 1..Len(sources) : IsNullish(sources[i]) THEN Thrown
      ELSE Return(IF Len(response) > 2000
                  THEN Slice(response, 0, 1997) \o <<".",".",".">>
                  ELSE response)

----------------------------------------------------------------------------
(* The message filter                                                      *)

\* the end of the run of digits that starts at j (j - 1 when there is none)
DigitRunEnd(s, j) ==
  CHOOSE k \in (j - 1)..Len(s) :
    /\ \A m \in j..k : IsDigit(s[m])
    /\ k = Len(s) \/ ~IsDigit(s[k + 1])

\* the index after a match of <@!?(\d+)> that starts at i, 0 when none does
MentionEnd(s, i) ==
  IF ~(i + 1 <= Len(s) /\ s[i] = "<" /\ s[i + 1] = "@") THEN 0
  ELSE LET j == IF i + 2 <= Len(s) /\ s[i + 2] = "!" THEN i + 3 ELSE i + 2
           k == DigitRunEnd(s, j)
       IN  IF k >= j /\ k + 1 <= Len(s) /\ s[k + 1] = ">" THEN k + 2 ELSE 0

RECURSIVE StripFrom(_, _)
StripFrom(s, i) ==
  IF i > Len(s) THEN <<>>
  ELSE IF MentionEnd(s, i) > 0 THEN StripFrom(s, MentionEnd(s, i))
  ELSE <<s[i]>> \o StripFrom(s, i + 1)

\* content.replace(/<@!?(\d+)>/g, '')
StripMentions(s) == StripFrom(s, 1)

skipWords ==
  <<<<"g","m">>,
    <<"g","n">>,
    <<"t","h","a","n","k","s">>,
    <<"t","h","a","n","k"," ","y","o","u">>,
    <<"t","y">>,
    <<"o","k">>,
    <<"n","i","c","e">>,
    <<"l","o","l">>>>
questionIndicators ==
  <<<<"w","h","a","t">>,
    <<"h","o","w">>,
    <<"w","h","y">>,
    <<"w","h","e","n">>,
    <<"w","h","e","r","e">>,
    <<"w","h","o">>,
    <<"c","a","n">>,
    <<"d","o","e","s",",">>,
    <<"i","s">>>>
keywords ==
  <<<<"i","a","e","r","o">>,
    <<"a","e","r","o">>,
    <<"s","t","a","k","e">>,
    <<"v","a","u","l","t">>,
    <<"t","o","k","e","n">>,
    <<"r","e","w","a","r","d">>>>

\* the filter on messages of an auto-answer channel that do not mention the
\* bot (lines 661-672): TRUE when the handler goes on to ask
isLikelyQuestion(content) ==
  LET text == ToLowerCase(Trim(content))
      hasQuestion ==
        \/ Includes(text, <<"?">>)
        \/ \E i \in 1..Len(questionIndicators) :
             StartsWith(text, questionIndicators[i] \o <<" ">>)
      hasKeywords == \E i \in 1..Len(keywords) : Includes(text, keywords[i])
  IN  IF Len(text) < 5 THEN FALSE
      ELSE IF StartsWith(text, <<"!">>) \/ StartsWith(text, <<"/">>)
                \/ StartsWith(text, <<".">>) THEN FALSE
      ELSE IF \E i \in 1..Len(skipWords) :
                text = skipWords[i] \/ StartsWith(text, skipWords[i] \o <<" ">>)
           THEN FALSE
      ELSE hasQuestion \/ hasKeywords

----------------------------------------------------------------------------
(* Inbound events                                                          *)

Q_Command == <<"W","h","a","t"," ","i","s"," ","t","h","e"," ","r","e","w","a","r","d"," ","v","a","u","l","t","?">>
M_NewTopic == <<" ","N","e","w"," ","T","o","p","i","c"," ">>
M_Mention == <<"<","@","9","9","9",">"," ","w","h","a","t"," ","i","s"," ","a","e","r","o">>
M_MentionOnly == <<"<","@","!","9","9","9",">"," ">>
M_Question == <<"w","h","a","t"," ","i","s"," ","t","h","e"," ","s","t","a","k","i","n","g"," ","A","P","Y","?">>
M_Gm == <<"g","m">>
M_OkThanks == <<"o","k"," ","t","h","a","n","k","s">>
M_Hi == <<"h","i">>
M_Keyword == <<"i","a","e","r","o"," ","v","a","u","l","t"," ","r","u","l","e","s">>
M_Does == <<"d","o","e","s"," ","i","t"," ","w","o","r","k"," ","t","o","d","a","y">>
M_OkComma == <<"o","k",","," ","w","h","a","t"," ","i","s"," ","a","e","r","o","?">>
M_IsIt == <<" "," ","I","s"," ","i","t"," ","l","i","v","e"," ","y","e","t"," ">>
M_Bang == <<"!","h","e","l","p"," ","w","h","a","t"," ","i","s"," ","a","e","r","o","?">>
M_Chat == <<"h","e","l","l","o"," ","e","v","e","r","y","o","n","e"," ","t","h","e","r","e">>

\* a command invocation: the command name and the "question" option
Interaction(user, command, question) ==
  [type |-> "interaction", user |-> user, command |-> command,
   question |-> question]

\* a created message: author, author.bot, content, whether the channel is
\* in autoChannels and whether the message mentions the bot
Message(user, bot, content, auto, mentioned) ==
  [type |-> "message", user |-> user, bot |-> bot, content |-> content,
   auto |-> auto, mentioned |-> mentioned]

InteractionEvents ==
  {Interaction(u, "ask", Str(Q_Command)) : u \in Users}
  \cup {Interaction("u1", "other", Undefined), Interaction("u1", "ask", Null)}

MessageEvents ==
  {Message(u, FALSE, M_NewTopic, a, FALSE) : u \in Users, a \in {FALSE}}
  \cup {Message(u, FALSE, M_Mention, FALSE, TRUE) : u \in Users}
  \cup {Message(u, FALSE, M_Question, TRUE, FALSE) : u \in Users}
  \cup {Message("u1", TRUE, M_Question, TRUE, FALSE),
        Message("u1", FALSE, M_Question, FALSE, FALSE),
        Message("u1", FALSE, M_MentionOnly, FALSE, TRUE),
        Message("u1", FALSE, M_Gm, TRUE, FALSE)}
  \cup {Message("u1", FALSE, m, TRUE, FALSE) :
          m \in {M_OkThanks, M_Hi, M_Keyword, M_Does, M_OkComma, M_IsIt,
                 M_Bang, M_Chat}}

\* the outcomes of the outbound call the handlers meet: timeout, error
\* status, "null" body, an answer the default gate accepts, a hedging answer,
\* an answer with a null source entry, an empty array
D_Hedge == Data(Str(T_NotSure), Arr(<<S_Full, S_TitleOnly, S_UrlOnly>>),
                <<Num(9, 10), Undefined, Undefined, Undefined, Undefined>>)
D_NullSource == Data(Str(T_Clean), Arr(<<Null, S_Full>>), NoConf)
HandlerOutcomes ==
  {FetchAborted, Response(FALSE, EmptyBody), Response(TRUE, NullBody),
   Response(TRUE, JsonBody(Arr(<<Event(LOOKUP_ANSWER, D_Lookup)>>))),
   Response(TRUE, JsonBody(Arr(<<Event(ANSWER, D_Hedge)>>))),
   Response(TRUE, JsonBody(Arr(<<Event(ANSWER, D_NullSource)>>))),
   Response(TRUE, JsonBody(Arr(<<>>)))}

HandlerConfigs == {DefaultConfig, Config(FALSE, 1, 40, Fin(35, 100))}

----------------------------------------------------------------------------
(* The handlers.  A handler slot runs one event at a time; pc is the await *)
(* the handler is suspended at.  calls lists the platform operations the   *)
(* handler has issued, each pending, ok or failed.  A handler that has     *)
(* run to its end is at pc "done" and returns before anything else runs.   *)

Slots == {"h1", "h2"}
NoOutcome == [k |-> "none"]
NoResult == [none |-> TRUE]
Idle == [pc |-> "idle"]

\* most resets in a behaviour, all users together
MaxResets == 1

Handler(ev) ==
  [pc |-> "done", ev |-> ev, question |-> <<>>, conversationId |-> NoId,
   timer |-> FALSE, outcome |-> NoOutcome, result |-> NoResult,
   deferred |-> FALSE, calls |-> <<>>, threw |-> FALSE]

Call(op, payload) == [op |-> op, payload |-> payload, status |-> "pending"]

\* the handler suspended at pc on a platform operation it has just issued
Await(rec, pc, op, payload) ==
  [rec EXCEPT !.pc = pc, !.calls = Append(rec.calls, Call(op, payload))]

\* the pending operation has settled
Settle(rec, ok) ==
  [rec EXCEPT !.calls[Len(rec.calls)].status = IF ok THEN "ok" ELSE "failed"]

\* no handler is between its last statement and its return
NoneDone == \A s \in DOMAIN hs : hs[s].pc # "done"

Free(h) == NoneDone /\ hs[h].pc = "idle"

Suspended(h, pcs) == NoneDone /\ hs[h].pc \in pcs

\* the catch block of the command handler (lines 627-635)
InteractionCatch(rec) ==
  IF rec.deferred
  THEN Await(rec, "errorEdit", "editReply", [content |-> ERROR_MSG])
  ELSE Await(rec, "errorReply", "reply",
             [content |-> ERROR_MSG, flags |-> EPHEMERAL])

\* the synchronous start of askDocsBot (lines 525-549): the timer is set,
\* the conversation id read or created, the request issued
IssueAsk(h, rec, pc) ==
  LET g == getConversationIdForUser(rec.ev.user)
  IN  /\ convoByUser' = g.map
      /\ nextId' = g.next
      /\ requests' = requests \cup
           {[user |-> rec.ev.user, id |-> g.id, epoch |-> resets[rec.ev.user]]}
      /\ hs' = [hs EXCEPT ![h] =
                  [rec EXCEPT !.pc = pc, !.timer = TRUE, !.conversationId = g.id]]

\* InteractionCreate up to its first await (lines 596-601)
InteractionCreate(h, ev) ==
  /\ Free(h)
  /\ hs' = [hs EXCEPT ![h] =
       IF ev.command # "ask" THEN Handler(ev)
       ELSE IF ev.question.t # "string" THEN InteractionCatch(Handler(ev))
       ELSE Await([Handler(ev) EXCEPT !.question = ev.question.s],
                  "defer", "deferReply", [flags |-> EPHEMERAL])]
  /\ UNCHANGED <<cfg, convoByUser, nextId, resets, requests, tIn, tOut>>

\* deferReply has settled (line 601), askDocsBot starts (line 603)
DeferSettled(h, ok) ==
  /\ Suspended(h, {"defer"})
  /\ IF ok
     THEN /\ IssueAsk(h, [Settle(hs[h], ok) EXCEPT !.deferred = TRUE], "fetch")
          /\ UNCHANGED <<cfg, resets, tIn, tOut>>
     ELSE /\ hs' = [hs EXCEPT ![h] = InteractionCatch(Settle(hs[h], ok))]
          /\ UNCHANGED <<cfg, convoByUser, nextId, resets, requests, tIn, tOut>>

\* a command handler that returns without a reply when there is no answer
InteractionAfterAsk_Silent(rec, r) ==
  IF r.thrown THEN InteractionCatch(rec)
  ELSE IF ~r.v.ok THEN [rec EXCEPT !.pc = "done"]
  ELSE LET e == BuildEmbed(r.v.answer, r.v.sources)
       IN  IF e.thrown THEN InteractionCatch(rec)
           ELSE Await(rec, "answer", "editReply", [embeds |-> <<e.v>>])

\* the command handler after askDocsBot (lines 603-625)
InteractionAfterAsk(rec, r) ==
  IF r.thrown THEN InteractionCatch(rec)
  ELSE IF ~r.v.ok
       THEN Await(rec, "notice", "editReply", [content |-> NOTICE])
  ELSE LET e == BuildEmbed(r.v.answer, r.v.sources)
       IN  IF e.thrown THEN InteractionCatch(rec)
           ELSE Await(rec, "answer", "editReply", [embeds |-> <<e.v>>])

\* the catch-all of the message handler (lines 694-696): the error is
\* logged and the handler ends
MessageCatch(rec) == [rec EXCEPT !.pc = "done"]

\* a message handler that sends whatever askDocsBot returned
MessageAfterAsk_NoGate(rec, r) ==
  IF r.thrown THEN MessageCatch(rec)
  ELSE LET m == BuildResponse(rec.ev.user, rec.question, r.v.answer, r.v.sources)
       IN  IF m.thrown THEN MessageCatch(rec)
           ELSE Await(rec, "send", "send", [content |-> m.v])

\* the message handler after askDocsBot (lines 676-691)
MessageAfterAsk(rec, r) ==
  IF r.thrown THEN MessageCatch(rec)
  ELSE IF ~r.v.ok THEN [rec EXCEPT !.pc = "done"]
  ELSE LET m == BuildResponse(rec.ev.user, rec.question, r.v.answer, r.v.sources)
       IN  IF m.thrown THEN MessageCatch(rec)
           ELSE Await(rec, "send", "send", [content |-> m.v])

\* an ask that stores its conversation id again when the call has settled
FetchSettled_Reinstall(h, resp) ==
  /\ Suspended(h, {"fetch"})
  /\ LET r == askDocsBot(resp)
         rec == [hs[h] EXCEPT !.timer = FALSE, !.outcome = resp,
                              !.result = IF r.thrown THEN NoResult ELSE r.v]
     IN  hs' = [hs EXCEPT ![h] =
                  IF rec.ev.type = "interaction"
                  THEN InteractionAfterAsk(rec, r)
                  ELSE MessageAfterAsk(rec, r)]
  /\ convoByUser' = [convoByUser EXCEPT ![hs[h].ev.user] = hs[h].conversationId]
  /\ UNCHANGED <<cfg, nextId, resets, requests, tIn, tOut>>

\* the outbound call has settled: the rest of askDocsBot (lines 551-583,
\* the timer cleared) and the handler up to its next await
FetchSettled(h, resp) ==
  /\ Suspended(h, {"fetch"})
  /\ LET r == askDocsBot(resp)
         rec == [hs[h] EXCEPT !.timer = FALSE, !.outcome = resp,
                              !.result = IF r.thrown THEN NoResult ELSE r.v]
     IN  hs' = [hs EXCEPT ![h] =
                  IF rec.ev.type = "interaction"
                  THEN InteractionAfterAsk(rec, r)
                  ELSE MessageAfterAsk(rec, r)]
  /\ UNCHANGED <<cfg, convoByUser, nextId, resets, requests, tIn, tOut>>

\* editReply with the notice or the embed has settled (lines 606, 625)
EditSettled(h, ok) ==
  /\ Suspended(h, {"notice", "answer"})
  /\ hs' = [hs EXCEPT ![h] =
       IF ok THEN [Settle(hs[h], ok) EXCEPT !.pc = "done"]
       ELSE InteractionCatch(Settle(hs[h], ok))]
  /\ UNCHANGED <<cfg, convoByUser, nextId, resets, requests, tIn, tOut>>

\* an error reply whose rejection is not handled: it leaves the catch block
ErrorSettled_Unhandled(h, ok) ==
  /\ Suspended(h, {"errorEdit", "errorReply"})
  /\ hs' = [hs EXCEPT ![h] =
       [Settle(hs[h], ok) EXCEPT !.pc = "done", !.threw = ~ok]]
  /\ UNCHANGED <<cfg, convoByUser, nextId, resets, requests, tIn, tOut>>

\* the error reply of the catch block has settled; .catch(() => {}) swallows
\* its failure (lines 631, 633)
ErrorSettled(h, ok) ==
  /\ Suspended(h, {"errorEdit", "errorReply"})
  /\ hs' = [hs EXCEPT ![h] = [Settle(hs[h], ok) EXCEPT !.pc = "done"]]
  /\ UNCHANGED <<cfg, convoByUser, nextId, resets, requests, tIn, tOut>>

\* MessageCreate up to its first await (lines 639-674)
MessageCreate(h, msg) ==
  /\ Free(h)
  /\ LET reset == ToLowerCase(Trim(msg.content)) = NEW_TOPIC
         question == IF msg.mentioned THEN Trim(StripMentions(msg.content))
                     ELSE msg.content
         rec == [Handler(msg) EXCEPT !.question = question]
     IN  /\ ~msg.bot /\ reset => resets["u1"] + resets["u2"] < MaxResets
         /\ IF msg.bot THEN
              /\ hs' = [hs EXCEPT ![h] = Handler(msg)]
              /\ UNCHANGED <<convoByUser, resets>>
            ELSE IF reset THEN
              /\ convoByUser' = ConvoDelete(msg.user)
              /\ resets' = [resets EXCEPT ![msg.user] = @ + 1]
              /\ hs' = [hs EXCEPT ![h] =
                          Await(Handler(msg), "resetReply", "reply",
                                [content |-> RESET_MSG])]
            ELSE
              /\ hs' = [hs EXCEPT ![h] =
                   IF ~msg.mentioned /\ ~msg.auto THEN Handler(msg)
                   ELSE IF msg.mentioned /\ Len(question) = 0 THEN Handler(msg)
                   ELSE IF msg.auto /\ ~msg.mentioned
                            /\ ~isLikelyQuestion(msg.content) THEN Handler(msg)
                   ELSE Await(rec, "typing", "sendTyping", [none |-> TRUE])]
              /\ UNCHANGED <<convoByUser, resets>>
  /\ UNCHANGED <<cfg, nextId, requests, tIn, tOut>>

\* msg.reply of the reset has settled (line 645); its failure goes to the
\* handler's catch-all (line 694)
ResetReplySettled(h, ok) ==
  /\ Suspended(h, {"resetReply"})
  /\ hs' = [hs EXCEPT ![h] =
       IF ok THEN [Settle(hs[h], ok) EXCEPT !.pc = "done"]
       ELSE MessageCatch(Settle(hs[h], ok))]
  /\ UNCHANGED <<cfg, convoByUser, nextId, resets, requests, tIn, tOut>>

\* sendTyping has settled, its failure swallowed (line 674); askDocsBot
\* starts (line 676)
TypingSettled(h, ok) ==
  /\ Suspended(h, {"typing"})
  /\ IssueAsk(h, Settle(hs[h], ok), "fetch")
  /\ UNCHANGED <<cfg, resets, tIn, tOut>>

\* channel.send has settled (line 691); its failure goes to the catch-all
SendSettled(h, ok) ==
  /\ Suspended(h, {"send"})
  /\ hs' = [hs EXCEPT ![h] =
       IF ok THEN [Settle(hs[h], ok) EXCEPT !.pc = "done"]
       ELSE MessageCatch(Settle(hs[h], ok))]
  /\ UNCHANGED <<cfg, convoByUser, nextId, resets, requests, tIn, tOut>>

\* the handler's async function returns; its locals are gone
HandlerReturns(h) ==
  /\ hs[h].pc = "done"
  /\ hs' = [hs EXCEPT ![h] = Idle]
  /\ UNCHANGED <<cfg, convoByUser, nextId, resets, requests, tIn, tOut>>

Pending == [pending |-> TRUE]

\* the events, outcomes and platform results of the interleaved handlers
ConcInteractions ==
  {Interaction(u, "ask", Str(Q_Command)) : u \in Users}
  \cup {Interaction("u1", "ask", Null)}
ConcMessages ==
  {Message(u, FALSE, M_NewTopic, FALSE, FALSE) : u \in Users}
  \cup {Message(u, FALSE, M_Question, TRUE, FALSE) : u \in Users}
ConcOutcomes ==
  {FetchAborted, Response(TRUE, JsonBody(Arr(<<Event(LOOKUP_ANSWER, D_Lookup)>>)))}

InitWith(configs) ==
  /\ cfg \in configs
  /\ convoByUser = [u \in Users |-> NoId]
  /\ nextId = 0
  /\ hs = [h \in Slots |-> Idle]
  /\ resets = [u \in Users |-> 0]
  /\ requests = {}
  /\ tIn = NoOutcome
  /\ tOut = Pending

\* two handlers interleaved at their awaits, the platform never failing
Init == InitWith({DefaultConfig})

Next ==
  \/ \E h \in Slots, ev \in ConcInteractions : InteractionCreate(h, ev)
  \/ \E h \in Slots : DeferSettled(h, TRUE)
  \/ \E h \in Slots, resp \in ConcOutcomes : FetchSettled(h, resp)
  \/ \E h \in Slots : EditSettled(h, TRUE)
  \/ \E h \in Slots : ErrorSettled(h, TRUE)
  \/ \E h \in Slots, msg \in ConcMessages : MessageCreate(h, msg)
  \/ \E h \in Slots : ResetReplySettled(h, TRUE)
  \/ \E h \in Slots : TypingSettled(h, TRUE)
  \/ \E h \in Slots : SendSettled(h, TRUE)
  \/ \E h \in Slots : HandlerReturns(h)

Spec == Init /\ [][Next]_vars

\* one handler at a time, every event, every outcome of the outbound call,
\* every platform operation succeeding or failing
InitOne == InitWith(HandlerConfigs)

NextOne ==
  \/ \E ev \in InteractionEvents : InteractionCreate("h1", ev)
  \/ \E ok \in BOOLEAN : DeferSettled("h1", ok)
  \/ \E resp \in HandlerOutcomes : FetchSettled("h1", resp)
  \/ \E ok \in BOOLEAN : EditSettled("h1", ok)
  \/ \E ok \in BOOLEAN : ErrorSettled("h1", ok)
  \/ \E msg \in MessageEvents : MessageCreate("h1", msg)
  \/ \E ok \in BOOLEAN : ResetReplySettled("h1", ok)
  \/ \E ok \in BOOLEAN : TypingSettled("h1", ok)
  \/ \E ok \in BOOLEAN : SendSettled("h1", ok)
  \/ HandlerReturns("h1")

SpecOne == InitOne /\ [][NextOne]_vars

----------------------------------------------------------------------------
(* askDocsBot on its own: the outcome of the outbound call is drawn at the *)
(* start, one step applies askDocsBot to it.                               *)

InitAsk ==
  /\ cfg \in Configs
  /\ convoByUser = [u \in Users |-> NoId]
  /\ nextId = 0
  /\ hs = [h \in Slots |-> Idle]
  /\ resets = [u \in Users |-> 0]
  /\ requests = {}
  /\ tIn \in Outcomes
  /\ tOut = Pending

AskAlone ==
  /\ tIn # NoOutcome
  /\ tOut = Pending
  /\ tOut' = askDocsBot(tIn)
  /\ UNCHANGED <<cfg, convoByUser, nextId, hs, resets, requests, tIn>>

NextAsk == AskAlone

SpecAsk == InitAsk /\ [][NextAsk]_vars

----------------------------------------------------------------------------
(* Properties of askDocsBot on its own (SpecAsk)                           *)

\* askDocsBot has returned or thrown
AskDone == tOut # Pending

\* the gate was run: askDocsBot returned the result built from a chosen event
GateRan == AskDone /\ ~tOut.thrown /\ "chosen" \in DOMAIN tOut.v

\* the outbound call failed: network error, abort on the timeout, non-success
\* status, unreadable or unparseable body, or a parsed body that is no array
IsFailure(resp) ==
  \/ resp.k # "response"
  \/ ~resp.ok
  \/ resp.body.kind \in {"error", "invalid"}
  \/ resp.body.kind = "json" /\ resp.body.v.t # "array"

\* C1: askDocsBot never throws to its caller, and for every failed outbound
\* call (network error, abort, non-success status, unparseable body, body
\* that is not an array) it returns { ok: false, answer: '', sources: [] }.
C1_NeverThrows ==
  AskDone =>
    /\ ~tOut.thrown
    /\ IsFailure(tIn) =>
         tOut.v = [ok |-> FALSE, answer |-> <<>>, sources |-> <<>>]

C1_Witness ==
  /\ AskDone
  /\ tIn \in {FetchAborted, Response(FALSE, EmptyBody), Response(TRUE, InvalidBody)}
  /\ ~tOut.thrown
  /\ ~tOut.v.ok

\* the single event of the body, when the body is an array of one object
\* that carries a data object
OneEvent ==
  /\ tIn.k = "response" /\ tIn.ok /\ tIn.body.kind = "json"
  /\ tIn.body.v.t = "array" /\ Len(tIn.body.v.a) = 1
  /\ tIn.body.v.a[1].t = "object" /\ tIn.body.v.a[1].data.t = "object"
TheData == tIn.body.v.a[1].data

\* some fallback pattern matches the text
MatchesFallback(t) ==
  \E k \in 1..Len(FALLBACK_PATTERNS) : RegExpTest(FALLBACK_PATTERNS[k], t)

\* the sample answers that contain a fallback phrase
PhraseTexts ==
  {T_ShortUnsure, T_DontKnow, T_DontKnowCurly, T_NotSure, T_PleaseClarify,
   T_CanYouClarify, T_CouldNotFind, T_CouldntFind, T_NoInformation, T_Unsure,
   T_AsAnAi, T_NotEnoughContext, T_CannotHelp, T_CantHelp, T_TryAgain,
   T_Rephrase}

\* the same, as askDocsBot hands them to the gate
PhraseAnswers == {Trim(x) : x \in PhraseTexts}

\* C3: in strict mode an answer whose trimmed length is below MIN_LEN, the
\* empty answer included, is rejected by the gate whatever the sources and
\* the confidence fields of the chosen event are.
C3_ShortRejected ==
  GateRan /\ STRICT =>
    /\ Len(tOut.v.answer) = 0 \/ Len(tOut.v.answer) < MIN_LEN => ~tOut.v.ok
    /\ \A x \in AnswerTexts :
         Len(Trim(x)) = 0 \/ Len(Trim(x)) < MIN_LEN =>
           ~passesStrictGate(x, tOut.v.sources, tOut.v.chosen)

C3_Witness ==
  /\ GateRan /\ OneEvent /\ cfg = DefaultConfig
  /\ tOut.v.answer = T_Short
  /\ Len(FilterBoolean(tOut.v.sources)) = 3
  /\ TheData.confidence = Num(1, 1)
  /\ ~tOut.v.ok

\* C4: in strict mode an answer that matches a fallback pattern (in any
\* case, anywhere in the text) is rejected by the gate, also when its length,
\* its sources and its confidence satisfy their thresholds.
C4_FallbackRejected ==
  GateRan /\ STRICT =>
    /\ MatchesFallback(tOut.v.answer) => ~tOut.v.ok
    /\ tOut.v.answer \in PhraseAnswers => ~tOut.v.ok

C4_Witness ==
  /\ GateRan /\ OneEvent /\ cfg = DefaultConfig
  /\ tOut.v.answer = T_NotSure
  /\ Len(tOut.v.answer) >= MIN_LEN
  /\ Len(FilterBoolean(tOut.v.sources)) = 3
  /\ TheData.confidence = Num(9, 10)
  /\ ~tOut.v.ok

\* the text and the source count of the result satisfy their thresholds
TextAndSourcesPass ==
  /\ Len(tOut.v.answer) > 0
  /\ Len(tOut.v.answer) >= MIN_LEN
  /\ ~MatchesFallback(tOut.v.answer)
  /\ Cardinality({i \in 1..Len(tOut.v.sources) : tOut.v.sources[i].t # "null"})
       >= MIN_SRC

\* a field value that carries no number: missing, null, an empty or
\* non-numeric string, an object, Infinity
NotANumber(v) ==
  \/ v.t \in {"undefined", "null", "object"}
  \/ v.t = "string" /\ (Len(Trim(v.s)) = 0 \/ ~Number(v).fin)
  \/ v.t = "number" /\ "inf" \in DOMAIN v

\* no candidate confidence field of the chosen event carries a number
NoUsableConfidence ==
  /\ \A f \in {"confidence", "score", "relevance", "similarity", "lookup_score"} :
       NotANumber(TheData[f])
  /\ \A i \in 1..Len(tOut.v.sources) :
       tOut.v.sources[i].t = "object" =>
         \A f \in {"score", "confidence", "similarity"} :
           NotANumber(tOut.v.sources[i][f])

\* C6: in strict mode an answer that passes the text and source-count checks
\* is accepted whenever every candidate confidence field of the chosen event
\* (on the payload and on each source) is missing, null, empty or otherwise
\* not a number.
C6_NoConfidenceAccepted ==
  GateRan /\ OneEvent /\ STRICT /\ TextAndSourcesPass /\ NoUsableConfidence
    => tOut.v.ok

\* the candidate confidence values in the order the gate reads them: the
\* five payload fields, then per source its first non-nullish score field
Candidates ==
  LET d == TheData
      src == tOut.v.sources
      PerSource(x) ==
        IF x.t # "object" THEN Undefined
        ELSE IF ~IsNullish(x.score) THEN x.score
        ELSE IF ~IsNullish(x.confidence) THEN x.confidence
        ELSE x.similarity
  IN  <<d.confidence, d.score, d.relevance, d.similarity, d.lookup_score>>
        \o [i \in 1..Len(src) |-> PerSource(src[i])]

\* the first candidate that Number() turns into a finite number, divided
\* by 100 when it is above 1; NaN when there is none
ExpectedConfidence ==
  LET idx == {i \in 1..Len(Candidates) : Number(Candidates[i]).fin}
  IN  IF idx = {} THEN NaN
      ELSE LET x == Number(Candidates[CHOOSE i \in idx : \A j \in idx : i <= j])
           IN  IF x.n > x.d THEN Fin(x.n, x.d * 100) ELSE x

\* the outcome of the outbound call with data.confidence replaced
WithConfidence(v) == [tIn EXCEPT !.body.v.a[1].data.confidence = v]

\* the gate rejects exactly when the expected confidence is below MIN_CONF
ConfidenceDecides ==
  GateRan /\ OneEvent /\ STRICT /\ TextAndSourcesPass =>
    (tOut.v.ok <=> ~(ExpectedConfidence.fin /\ Lt(ExpectedConfidence, MIN_CONF)))

\* 0.2 with minimum 0.35 is rejected
PointTwoRejected ==
  GateRan /\ OneEvent /\ STRICT /\ MIN_CONF = Fin(35, 100)
    /\ TheData.confidence = Num(1, 5) => ~tOut.v.ok

\* a finite number in data.confidence
HasRawConfidence ==
  GateRan /\ OneEvent /\ TheData.confidence.t = "number"
    /\ "inf" \notin DOMAIN TheData.confidence

\* the gate decides the same for data.confidence = v and for v / 100
SameAsHundredth ==
  tOut.v.ok =
    askDocsBot(WithConfidence(Num(TheData.confidence.n,
                                  TheData.confidence.d * 100))).v.ok

\* C7 as claimed: first finite value, divided by 100 exactly when above 1,
\* rejected exactly when below MIN_CONF; every raw value v and v / 100 give
\* the same gate decision; 0.2 with minimum 0.35 is rejected.
C7_AnyScaleSame ==
  /\ ConfidenceDecides
  /\ PointTwoRejected
  /\ HasRawConfidence => SameAsHundredth

\* C7 amended: as claimed, but v and v / 100 give the same gate decision
\* for 1 < v <= 100 only.
C7_ScaleSameFrom1To100 ==
  /\ ConfidenceDecides
  /\ PointTwoRejected
  /\ HasRawConfidence
       /\ TheData.confidence.n > TheData.confidence.d
       /\ TheData.confidence.n <= 100 * TheData.confidence.d
       => SameAsHundredth

C7_Witness ==
  /\ HasRawConfidence /\ cfg = DefaultConfig
  /\ TheData.confidence = Num(85, 1)
  /\ tOut.v.answer = T_Clean
  /\ Len(tOut.v.sources) = 1
  /\ tOut.v.ok
  /\ askDocsBot(WithConfidence(Num(17, 20))).v.ok

\* the body is an array of events
IsEventArray ==
  /\ tIn.k = "response" /\ tIn.ok /\ tIn.body.kind = "json"
  /\ tIn.body.v.t = "array"
TheEvents == tIn.body.v.a

\* the event the selection rule names: the first "lookup_answer" event,
\* else the first "answer" event, else the first element, else nothing
ExpectedChosen ==
  LET Tagged(tag) == {i \in 1..Len(TheEvents) :
                        TheEvents[i].t = "object" /\ TheEvents[i].event = tag}
      First(S) == TheEvents[CHOOSE i \in S : \A j \in S : i <= j]
  IN  IF Tagged(LOOKUP_ANSWER) # {} THEN First(Tagged(LOOKUP_ANSWER))
      ELSE IF Tagged(ANSWER) # {} THEN First(Tagged(ANSWER))
      ELSE IF Len(TheEvents) > 0 THEN TheEvents[1]
      ELSE Undefined

\* the answer field of the event the selection rule names is text or absent
\* (anything else has no trim method: a TypeError, handled as a failure)
AnswerIsText ==
  LET a == OptGet(OptGet(ExpectedChosen, "data"), "answer")
  IN  IsNullish(a) \/ a.t = "string"

\* C8: from an array of events askDocsBot answers from the first
\* "lookup_answer" event, else the first "answer" event, else the first
\* element, whatever their positions; for an empty array nothing is chosen
\* and the answer is '' with no sources.
C8_ChosenByPriority ==
  AskDone /\ IsEventArray /\ AnswerIsText =>
    /\ ~tOut.thrown
    /\ "chosen" \in DOMAIN tOut.v
    /\ tOut.v.chosen = ExpectedChosen
    /\ LET d == OptGet(ExpectedChosen, "data")
       IN  /\ tOut.v.answer =
                 (IF OptGet(d, "answer").t = "string"
                  THEN Trim(OptGet(d, "answer").s) ELSE <<>>)
           /\ tOut.v.sources =
                 (IF OptGet(d, "sources").t = "array"
                  THEN OptGet(d, "sources").a ELSE <<>>)
    /\ Len(TheEvents) = 0 =>
         /\ tOut.v.chosen = Undefined
         /\ tOut.v.answer = <<>>
         /\ tOut.v.sources = <<>>

C8_Witness ==
  /\ AskDone /\ IsEventArray /\ ~tOut.thrown
  /\ Len(TheEvents) = 3
  /\ TheEvents[1] = Event(ANSWER, D_Answer)
  /\ TheEvents[2] = Event(OTHER_TAG, D_Other)
  /\ TheEvents[3] = Event(LOOKUP_ANSWER, D_Lookup)
  /\ tOut.v.chosen = TheEvents[3]
  /\ tOut.v.answer = T_Clean

\* the body of a successful response is empty or the text "null"
IsNullBody ==
  tIn.k = "response" /\ tIn.ok /\ tIn.body.kind \in {"empty", "null"}

\* C9 as claimed: for an empty or "null" body askDocsBot gives its caller
\* something other than what it gives for a hard failure.
C9_NullBodyDistinct ==
  AskDone /\ IsNullBody =>
    \A f \in {FetchRejected, FetchAborted, Response(FALSE, EmptyBody),
              Response(TRUE, InvalidBody)} :
      tOut # askDocsBot(f)

\* C9 amended: for an empty or "null" body askDocsBot returns
\* { ok: false, answer: '', sources: [] }, the very result of a hard failure.
C9_NullBodySameAsFailure ==
  AskDone /\ IsNullBody =>
    /\ ~tOut.thrown
    /\ tOut.v = [ok |-> FALSE, answer |-> <<>>, sources |-> <<>>]
    /\ \A f \in {FetchRejected, FetchAborted, Response(FALSE, EmptyBody),
                 Response(TRUE, InvalidBody)} :
         tOut = askDocsBot(f)

C9_Witness ==
  /\ AskDone
  /\ tIn = Response(TRUE, NullBody)
  /\ ~tOut.v.ok

----------------------------------------------------------------------------
(* Properties of the handlers (SpecOne, Spec)                              *)

\* askDocsBot has returned to the handler in slot h
Asked(h) == hs[h].pc # "idle" /\ hs[h].result # NoResult

\* the platform operations the handler in slot h issued after askDocsBot
\* returned: all but its deferReply or sendTyping
AfterAsk(h) == Tail(hs[h].calls)

\* C2: when askDocsBot yields a no-answer result (timeout, other failure,
\* gate rejection) the command handler edits the deferred reply to the
\* no-confident-answer notice and, that edit accepted, sends nothing else;
\* the message handler sends no message at all; neither sends answer text,
\* and the error message appears only when the notice edit itself failed.
C2_NoAnswerNoticeOrSilence ==
  \A h \in Slots :
    Asked(h) /\ ~hs[h].result.ok =>
      IF hs[h].ev.type = "interaction"
      THEN /\ Len(AfterAsk(h)) >= 1
           /\ AfterAsk(h)[1].op = "editReply"
           /\ AfterAsk(h)[1].payload = [content |-> NOTICE]
           /\ Len(AfterAsk(h)) > 1 => AfterAsk(h)[1].status = "failed"
           /\ \A i \in 1..Len(AfterAsk(h)) :
                AfterAsk(h)[i].payload \in {[content |-> NOTICE], [content |-> ERROR_MSG]}
      ELSE /\ hs[h].pc = "done"
           /\ AfterAsk(h) = <<>>
           /\ hs[h].calls[1].op = "sendTyping"

C2_Witness ==
  /\ hs["h1"].pc = "done"
  /\ hs["h1"].ev.type = "interaction"
  /\ hs["h1"].outcome = FetchAborted
  /\ ~hs["h1"].result.ok
  /\ Len(hs["h1"].calls) = 2
  /\ hs["h1"].calls[2] =
       [op |-> "editReply", payload |-> [content |-> NOTICE], status |-> "ok"]

\* C5: in permissive mode every non-empty answer of the API is accepted and
\* shown: askDocsBot reports ok and, no platform operation failing, the
\* handler ends having sent the answer (the embed whose description is the
\* answer, or the message that contains it).
C5_PermissiveShown ==
  \A h \in Slots :
    /\ hs[h].pc = "done" /\ hs[h].result # NoResult /\ ~STRICT
    /\ "chosen" \in DOMAIN hs[h].result
    /\ Len(hs[h].result.answer) > 0
    /\ \A i \in 1..Len(hs[h].calls) : hs[h].calls[i].status = "ok"
    => /\ hs[h].result.ok
       /\ \E i \in 1..Len(hs[h].calls) :
            LET c == hs[h].calls[i]
            IN  \/ /\ c.op = "editReply" /\ "embeds" \in DOMAIN c.payload
                   /\ c.payload.embeds[1].description = hs[h].result.answer
                \/ /\ c.op = "send"
                   /\ Includes(c.payload.content, hs[h].result.answer)

\* C10: per user the conversation id changes exactly at resets: the ids of
\* two requests of a user are equal exactly when no reset of that user lies
\* between them, an id is never empty and never one issued to someone else,
\* and the requests since the last reset carry the stored id.
C10_IdChangesAtResets ==
  /\ \A r1, r2 \in requests :
       /\ r1.user = r2.user => (r1.id = r2.id <=> r1.epoch = r2.epoch)
       /\ r1.id = r2.id => r1.user = r2.user
  /\ \A r \in requests :
       /\ r.id # NoId
       /\ r.epoch = resets[r.user] /\ convoByUser[r.user] # NoId
            => r.id = convoByUser[r.user]
  /\ \A h \in Slots :
       hs[h].pc = "fetch" =>
         \E r \in requests : r.user = hs[h].ev.user /\ r.id = hs[h].conversationId

C10_Witness ==
  /\ hs["h1"].pc = "fetch" /\ hs["h2"].pc = "fetch"
  /\ hs["h1"].ev.user = "u1" /\ hs["h2"].ev.user = "u1"
  /\ hs["h1"].conversationId = hs["h2"].conversationId
  /\ resets["u1"] = 1
  /\ \E r \in requests :
       r.user = "u1" /\ r.epoch = 0 /\ r.id # hs["h1"].conversationId

----------------------------------------------------------------------------
(* The message filter against the classifier rule                          *)

\* the characters of a word: a filler word ends at any other character
WordChars ==
  {LowerCase[i] : i \in 1..Len(LowerCase)} \cup {UpperCase[i] : i \in 1..Len(UpperCase)}
    \cup {Digits[i] : i \in 1..Len(Digits)} \cup {"_"}

\* text is the word, or starts with the word followed by a word boundary
IsFiller(text, word) ==
  /\ StartsWith(text, word)
  /\ Len(text) = Len(word) \/ text[Len(word) + 1] \notin WordChars

FillerWords ==
  <<<<"g","m">>,
    <<"g","n">>,
    <<"t","h","a","n","k","s">>,
    <<"t","h","a","n","k"," ","y","o","u">>,
    <<"t","y">>,
    <<"o","k">>,
    <<"n","i","c","e">>,
    <<"l","o","l">>>>
Interrogatives ==
  <<<<"w","h","a","t">>,
    <<"h","o","w">>,
    <<"w","h","y">>,
    <<"w","h","e","n">>,
    <<"w","h","e","r","e">>,
    <<"w","h","o">>,
    <<"c","a","n">>,
    <<"d","o","e","s">>,
    <<"i","s">>>>

\* the classifier rule for the trimmed, lower-cased text of an ambient
\* message: TRUE when the message is to be answered
ClassifierRule(text) ==
  /\ Len(text) >= 5
  /\ ~(StartsWith(text, <<"!">>) \/ StartsWith(text, <<"/">>)
         \/ StartsWith(text, <<".">>))
  /\ ~\E i \in 1..Len(FillerWords) : IsFiller(text, FillerWords[i])
  /\ \/ Includes(text, <<"?">>)
     \/ \E i \in 1..Len(Interrogatives) :
          StartsWith(text, Interrogatives[i] \o <<" ">>)
     \/ \E i \in 1..Len(keywords) : Includes(text, keywords[i])

\* the handler in slot h runs an ambient message: allow-listed channel, no
\* mention of the bot, author not a bot
Ambient(h) ==
  /\ hs[h].pc # "idle" /\ hs[h].ev.type = "message"
  /\ ~hs[h].ev.bot /\ hs[h].ev.auto /\ ~hs[h].ev.mentioned

\* the handler in slot h went on towards the outbound call
WentOn(h) == \E i \in 1..Len(hs[h].calls) : hs[h].calls[i].op = "sendTyping"

\* C11: for an ambient message the handler goes on to query the API exactly
\* when the classifier rule holds for the trimmed, lower-cased text; "gm",
\* "ok thanks" and "hi" are ignored, "what is the staking APY?" and
\* "iaero vault rules" are answered.
C11_AsksExactlyWhenRuleHolds ==
  \A h \in Slots :
    Ambient(h) =>
      /\ WentOn(h) <=> ClassifierRule(ToLowerCase(Trim(hs[h].ev.content)))
      /\ hs[h].ev.content \in {M_Gm, M_OkThanks, M_Hi} => ~WentOn(h)
      /\ hs[h].ev.content \in {M_Question, M_Keyword} => WentOn(h)

----------------------------------------------------------------------------
(* The formatter on its own (SpecFmt): the two handlers from the return of *)
(* askDocsBot with an accepted result up to the operation they issue       *)

\* the text of n characters c
Rep(c, n) == [i \in 1..n |-> c]

\* the longest answer of the API that is formatted
MaxAnswerLen == 4001

\* the most sources of a chosen event that are formatted
MaxSources == 6

FmtAnswers ==
  {T_Clean} \cup
  {Rep("a", n) : n \in {1900, 1990, 2000, 3999, 4000, MaxAnswerLen}}

\* the k-th source of a long list: title and url differ per source
NumberedSource(k) ==
  Source(Str(<<"D","o","c"," ">> \o <<Digits[k + 1]>>),
         Str(<<"h","t","t","p","s",":","/","/","d","/">> \o <<Digits[k + 1]>>),
         Undefined, Undefined, Undefined)

\* a source whose title and url have n characters each
WideSource(n) ==
  Source(Str(Rep("t", n)), Str(Rep("u", n)), Undefined, Undefined, Undefined)

FmtSources ==
  { <<>>, <<S_Full>>, <<S_Bare>>, <<S_TitleOnly, S_UrlOnly, S_Full>>,
    [k \in 1..5 |-> NumberedSource(k)],
    [k \in 1..MaxSources |-> NumberedSource(k)],
    [k \in 1..3 |-> WideSource(300)] }

FmtQuestions == {Q_Command, Rep("q", 500)}

\* the command handler suspended in askDocsBot, its reply deferred
CommandAtAsk(user, question) ==
  [Handler(Interaction(user, "ask", Str(question)))
     EXCEPT !.pc = "fetch", !.question = question, !.deferred = TRUE]

\* the message handler suspended in askDocsBot
MessageAtAsk(user, question) ==
  [Handler(Message(user, FALSE, question, TRUE, FALSE))
     EXCEPT !.pc = "fetch", !.question = question]

InitFmt ==
  /\ cfg = DefaultConfig
  /\ convoByUser = [u \in Users |-> NoId]
  /\ nextId = 0
  /\ hs = [h \in Slots |-> Idle]
  /\ resets = [u \in Users |-> 0]
  /\ requests = {}
  /\ tIn \in [k : {"accepted"}, user : {"u1"}, question : FmtQuestions,
              answer : FmtAnswers, sources : FmtSources]
  /\ tOut = Pending

\* askDocsBot returns the accepted result to each of the two handlers
FormatAlone ==
  /\ tOut = Pending
  /\ LET r == Return([ok |-> TRUE, answer |-> tIn.answer, sources |-> tIn.sources])
     IN  tOut' = [command |-> InteractionAfterAsk(CommandAtAsk(tIn.user, tIn.question), r),
                  message |-> MessageAfterAsk(MessageAtAsk(tIn.user, tIn.question), r)]
  /\ UNCHANGED <<cfg, convoByUser, nextId, hs, resets, requests, tIn>>

NextFmt == FormatAlone

SpecFmt == InitFmt /\ [][NextFmt]_vars

\* the formatter has run
Formatted == tOut # Pending

\* the embed the command handler handed to editReply
TheEmbed == tOut.command.calls[1].payload.embeds[1]

\* the text the message handler handed to send
TheMessage == tOut.message.calls[1].payload.content

\* C12: no output of the formatter exceeds its platform limit: the plain
\* message handed to send has at most 2000 characters, the embed's
\* description at most 4000, the value of its Sources field at most 1024,
\* whatever the lengths of the answer, the question and the source list.
C12_WithinLimits ==
  Formatted =>
    /\ tOut.message.pc = "send" /\ tOut.message.calls[1].op = "send"
    /\ Len(TheMessage) <= 2000
    /\ tOut.command.pc = "answer" /\ tOut.command.calls[1].op = "editReply"
    /\ Len(TheEmbed.description) <= 4000
    /\ \A i \in 1..Len(TheEmbed.fields) : Len(TheEmbed.fields[i].value) <= 1024

C12_Witness ==
  /\ Formatted
  /\ Len(tIn.answer) > 4000
  /\ tIn.sources = [k \in 1..3 |-> WideSource(300)]
  /\ tIn.question = Rep("q", 500)
  /\ Len(TheMessage) = 2000
  /\ SubSeq(TheMessage, 1998, 2000) = <<".", ".", ".">>
  /\ Len(TheEmbed.description) = 4000
  /\ Len(TheEmbed.fields[1].value) = 1024

\* the sources of the result that the embed lists: those whose entry
\* [title](url) stands in the value of the Sources field
ListedInEmbed ==
  {i \in 1..Len(tIn.sources) :
     \E f \in 1..Len(TheEmbed.fields) :
       Includes(TheEmbed.fields[f].value,
                <<"[">> \o OrText(tIn.sources[i].title, <<"S","o","u","r","c","e">>)
                  \o <<"]","(">> \o OrText(tIn.sources[i].url, <<"#">>) \o <<")">>)}

\* the sources of the result that the plain message lists: those whose url
\* (or title, without a url) stands on a line after the sources header
ListedInMessage ==
  {i \in 1..Len(tIn.sources) :
     /\ Truthy(tIn.sources[i].url) \/ Truthy(tIn.sources[i].title)
     /\ Includes(TheMessage,
                 <<"\n">> \o OrText(tIn.sources[i].url, OrText(tIn.sources[i].title, <<>>)))
     /\ Includes(TheMessage, SOURCES_HEADER)}

\* C13: both renderings list at most 5 sources, however many sources the
\* chosen event carries.
C13_AtMostFiveListed ==
  Formatted =>
    /\ Cardinality(ListedInEmbed) <= 5
    /\ Cardinality(ListedInMessage) <= 5

----------------------------------------------------------------------------
(* Failures while an accepted answer is delivered (SpecOne)                *)

\* the handler in slot h is a message handler that has finished with a
\* result askDocsBot reported as accepted
AcceptedMessageDone(h) ==
  /\ hs[h].pc = "done" /\ hs[h].ev.type = "message"
  /\ hs[h].result # NoResult /\ hs[h].result.ok

\* the channel.send operations the handler in slot h issued
Sends(h) == SelectSeq(hs[h].calls, LAMBDA c : c.op = "send")

\* the minimal fallback message: plain mention plus truncated answer
FallbackMessage(h) ==
  <<"<","@">> \o UserIdText(hs[h].ev.user) \o <<">"," ">>
    \o Slice(hs[h].result.answer, 0, 1900)

\* C14: when building or sending the formatted response for an accepted
\* answer fails, the message handler makes exactly one further attempt, with
\* the minimal fallback message; nothing is sent after that attempt and the
\* handler ends normally.
C14_OneFallbackAttempt ==
  \A h \in Slots :
    AcceptedMessageDone(h) /\ (Sends(h) = <<>> \/ Sends(h)[1].status = "failed") =>
      /\ ~hs[h].threw
      /\ Len(Sends(h)) \in {1, 2}
      /\ Sends(h)[Len(Sends(h))].payload.content = FallbackMessage(h)

----------------------------------------------------------------------------
(* No exception escapes a handler (SpecOne)                                *)

\* the conversation map changes in this step, and only by the creation of
\* an id for a user who has none (an ask is issued) or by a reset
MapChangeIsAskOrReset ==
  \E u \in Users :
    /\ \A v \in Users \ {u} : convoByUser'[v] = convoByUser[v]
    /\ \/ /\ convoByUser[u] = NoId /\ convoByUser'[u] # NoId
          /\ [user |-> u, id |-> convoByUser'[u], epoch |-> resets[u]] \in requests'
       \/ /\ convoByUser'[u] = NoId /\ resets'[u] = resets[u] + 1

\* C15: no exception escapes a handler: whichever step fails (option read,
\* defer, outbound call, formatting, send, the error reply itself), the
\* handler completes without throwing and returns, and a failing step leaves
\* the conversation map alone: the map changes only when an ask creates an
\* id or a reset deletes one.
C15_NoExceptionEscapes ==
  /\ [](\A h \in Slots : hs[h].pc # "idle" => ~hs[h].threw)
  /\ [][/\ convoByUser' # convoByUser => MapChangeIsAskOrReset
        /\ \A h \in Slots :
             hs[h].pc = "done" => hs'[h] = Idle /\ convoByUser' = convoByUser]_vars

C15_Witness ==
  /\ hs["h1"].pc = "done" /\ hs["h1"].ev.type = "interaction"
  /\ ~hs["h1"].threw
  /\ Len(hs["h1"].calls) = 3
  /\ hs["h1"].calls[2].status = "failed"
  /\ hs["h1"].calls[3].payload = [content |-> ERROR_MSG]
  /\ hs["h1"].calls[3].status = "failed"

----------------------------------------------------------------------------
(* The tracker under interleaved handlers (Spec)                           *)

\* the handler in slot h issues its outbound request in this step
IssuesRequest(h) == hs[h].pc # "fetch" /\ hs'[h].pc = "fetch"

\* the outbound call of the handler in slot h settles in this step
AskCompletes(h) == hs[h].pc = "fetch" /\ hs'[h].pc # "fetch"

\* C16: under every interleaving of handlers suspended at the outbound call
\* the tracker holds at most one id per user (the requests of a user since
\* the last reset carry one id), two users never hold the same id, the id a
\* request carries is the id stored for its user when the request is issued,
\* and an ask that completes after its user's reset does not re-install the
\* id from before the reset.
C16_TrackerSafe ==
  /\ [](\A r1, r2 \in requests :
          r1.user = r2.user /\ r1.epoch = r2.epoch => r1.id = r2.id)
  /\ [](\A u, v \in Users :
          u # v /\ convoByUser[u] # NoId => convoByUser[u] # convoByUser[v])
  /\ [](\A r \in requests :
          r.epoch < resets[r.user] => convoByUser[r.user] # r.id)
  /\ [][\A h \in Slots :
          /\ IssuesRequest(h) =>
               /\ hs'[h].conversationId # NoId
               /\ hs'[h].conversationId = convoByUser'[hs'[h].ev.user]
               /\ convoByUser[hs'[h].ev.user] # NoId =>
                    hs'[h].conversationId = convoByUser[hs'[h].ev.user]
          /\ AskCompletes(h) => convoByUser' = convoByUser]_vars

C16_Witness ==
  /\ hs["h1"].pc = "done" /\ hs["h1"].outcome # NoOutcome
  /\ hs["h2"].pc = "fetch"
  /\ hs["h1"].ev.user = "u1" /\ hs["h2"].ev.user = "u1"
  /\ resets["u1"] = 1
  /\ hs["h1"].conversationId # hs["h2"].conversationId
  /\ convoByUser["u1"] = hs["h2"].conversationId

----------------------------------------------------------------------------
(* Accepted results are rendered (SpecOne)                                 *)

\* the operation hands the rendered answer to the platform: editReply with
\* the embed whose description is the answer, or send with a message that
\* contains the answer
HandsOverAnswer(c, answer) ==
  \/ /\ c.op = "editReply" /\ "embeds" \in DOMAIN c.payload
     /\ c.payload.embeds[1].description = Slice(answer, 0, 4000)
  \/ /\ c.op = "send" /\ Includes(c.payload.content, answer)

\* C17: every result askDocsBot reports as accepted can be rendered: the
\* embed and the plain message are built without failure, so the operation
\* the handler issues after askDocsBot hands the answer to the platform (it
\* is not the error reply, and the answer is not dropped), also when the
\* source list holds null entries and when, in permissive mode, the answer
\* is empty.
C17_AcceptedIsRendered ==
  \A h \in Slots :
    Asked(h) /\ hs[h].result.ok =>
      /\ Len(AfterAsk(h)) >= 1
      /\ HandsOverAnswer(AfterAsk(h)[1], hs[h].result.answer)

----------------------------------------------------------------------------
(* Termination (SpecLive)                                                  *)

\* one handler at a time as in SpecOne; the outbound call always settles,
\* because the timer of line 526 aborts it after 20 seconds
SpecLive ==
  /\ InitOne
  /\ [][NextOne]_vars
  /\ WF_vars(\E resp \in HandlerOutcomes : FetchSettled("h1", resp))

\* the handler in slot h has issued an edit of its deferred reply
HasEdited(h) ==
  \E i \in 1..Len(hs[h].calls) : hs[h].calls[i].op = "editReply"

\* the handler in slot h is suspended at the outbound call
AtFetch(h) == hs[h].pc = "fetch"

\* C18: every ask terminates and every deferred command gets a final
\* reply: the outbound call of an ask settles and the ask returns, once and
\* after a single request (a handler that has the outcome of its call is
\* never again at the call), its timer is set exactly while the call is
\* pending, and a command whose deferral succeeded goes on to edit the
\* deferred reply and has done so when the handler ends.
C18_AsksTerminate ==
  /\ [](\A h \in Slots : hs[h].pc # "idle" =>
          /\ hs[h].timer <=> AtFetch(h)
          /\ AtFetch(h) => hs[h].outcome = NoOutcome /\ hs[h].result = NoResult
          /\ hs[h].pc = "done" /\ hs[h].deferred => HasEdited(h))
  /\ [][\A h \in Slots :
          AtFetch(h) /\ ~AtFetch(h)' =>
            /\ hs'[h].outcome # NoOutcome
            /\ requests' = requests
            /\ hs[h].deferred => HasEdited(h)']_vars
  /\ \A h \in Slots : AtFetch(h) ~> ~AtFetch(h)
  /\ \A h \in Slots :
       (AtFetch(h) /\ hs[h].deferred) ~> (hs[h].pc # "idle" /\ HasEdited(h))

C18_Witness ==
  /\ hs["h1"].pc = "done" /\ hs["h1"].ev.type = "interaction"
  /\ hs["h1"].deferred /\ ~hs["h1"].timer
  /\ hs["h1"].outcome = FetchAborted
  /\ HasEdited("h1")

====
